---- MODULE Spec2Model ----
(***************************************************************************)
(* Model of the wasm example backend of nexus-sdk:                         *)
(*   glue/rust.rs  - the mutex-guarded queue of messages pushed by the JS  *)
(*                   host (MESSAGES_FROM_JS)                                *)
(*   screens.rs    - the five screens and read_messages                    *)
(*   main.rs       - the top-level driver                                  *)
(*                                                                         *)
(* One step of a screen action is one iteration of that screen's           *)
(* `loop { ... next_frame().await }`.  A screen's prologue (the code of    *)
(* `run` before its loop) runs in the step in which the previous screen    *)
(* returns, as in main(), where nothing is awaited between the two.        *)
(* Pushes by the host take the queue's lock for the whole of               *)
(* push_new_js_message, drains for the whole of read_new_js_messages, so   *)
(* each is one atomic step.                                                *)
(*                                                                         *)
(* Not modelled: rendering (fonts, text metrics, the spinner's rotation),  *)
(* which no screen outcome depends on.                                     *)
(***************************************************************************)
EXTENDS Integers, Sequences, FiniteSets, TLC

\* ------------------------------------------------------------------ bounds
\* Longest queue the host is allowed to build up before a drain.
MaxQueue == 2
\* Number of Bridge runs after which the Main button is no longer clicked.
MaxBridgeRuns == 2
\* Queue-only specification: total number of pushes and of drains.
MaxPush == 3
MaxDrains == 2
\* Calls of read_messages in the polling specification: two periods.
MaxCalls == 403

\* ------------------------------------------------------- program constants
\* read_messages: `if *tick < 200`
PollTicks == 200

\* Text payloads the host sends (opaque strings).
Reasons == {"a", "b"}

\* The initial status text of BridgeScreen.
WaitingText == "Waiting..."

\* ---------------------------------------------------------------- messages
NexusInitializationFailed(reason) == [tag |-> "NexusInitializationFailed", reason |-> reason]

NexusInitializationSucceeded == [tag |-> "NexusInitializationSucceeded"]

BridgingFailed(reason) == [tag |-> "BridgingFailed", reason |-> reason]

BridgingStep(reason) == [tag |-> "BridgingStep", reason |-> reason]

BridgingSucceed == [tag |-> "BridgingSucceed"]

MessageFromJs ==
    {NexusInitializationFailed(r) : r \in Reasons}
        \cup {NexusInitializationSucceeded}
        \cup {BridgingFailed(r) : r \in Reasons}
        \cup {BridgingStep(r) : r \in Reasons}
        \cup {BridgingSucceed}

\* ------------------------------------------------------------------- state
VARIABLES
    MESSAGES_FROM_JS,   \* the queue (glue/rust.rs:10), oldest message first
    screen,             \* the screen whose loop main() is running
    tick,               \* `tick` of the running Waiting/Bridge screen
    text,               \* `text` of BridgeScreen::run
    prev_text,          \* history: value of `text` before its last assignment
    ignored,            \* history: messages the last iteration matched with `_ => ()`
    error,              \* the `error` argument of ErrorScreen::run
    res,                \* `res` of main(): what the last Result screen returned
    init_requests,      \* calls of glue::js::initialize_nexus so far
    bridge_requests,    \* calls of glue::js::initiate_bridge_and_transfer so far
    bridge_runs,        \* history: calls of BridgeScreen::run so far
    pushed,             \* history (queue-only spec): every message pushed
    drained,            \* history (queue-only spec): the drain results, in order
    frames,             \* history: iterations of the last Waiting/Bridge run (capped)
    stale,              \* history: the queue as it was when that run started
    discarded,          \* history: messages of the last batch left unread by a return
    calls,              \* history (polling spec): calls of read_messages so far
    last_read,          \* history (polling spec): what the last call returned
    elements,           \* layout spec: the elements being laid out
    call                \* layout spec: the last layout operation and its arguments

vars ==
    <<MESSAGES_FROM_JS, screen, tick, text, prev_text, ignored, error, res,
      init_requests, bridge_requests, bridge_runs, pushed, drained, frames,
      stale, discarded, calls, last_read, elements, call>>

driver_vars ==
    <<screen, tick, text, prev_text, ignored, error, res, init_requests,
      bridge_requests, bridge_runs>>

queue_history == <<pushed, drained>>

history_vars == <<frames, stale, discarded>>

poll_vars == <<calls, last_read>>

layout_vars == <<elements, call>>

other_vars == <<poll_vars, layout_vars>>

\* ------------------------------------------------------------ glue/rust.rs
\* Mutant: the message is put at the head of the queue.
push_at_head(l, message) == <<message>> \o l

\* push_new_js_message: the queue after `l.push(message)`.
push_new_js_message(l, message) == Append(l, message)

\* Mutant: the queue is copied out, not swapped out.
read_without_clearing(l) == [messages |-> l, l |-> l]

\* read_new_js_messages: `swap(&mut *l, &mut messages)` with messages = Vec::new().
\* messages: the value returned; l: the queue afterwards.
read_new_js_messages(l) == [messages |-> l, l |-> <<>>]

\* ------------------------------------------------------------- screens.rs
\* read_messages(&mut tick): the new tick, the messages returned and the queue.
read_messages(t, l) ==
    IF t < PollTicks
        THEN [tick |-> t + 1, messages |-> <<>>, l |-> l]
        ELSE [tick |-> 0,
              messages |-> read_new_js_messages(l).messages,
              l |-> read_new_js_messages(l).l]

\* What a loop iteration of a screen comes to.
Continue == [kind |-> "Continue"]

Ok == [kind |-> "Ok"]

Err(reason) == [kind |-> "Err", reason |-> reason]

NoResult == [kind |-> "None"]

\* Mutant: the loop does not return early, the last initialization message
\* of the batch decides.
RECURSIVE WaitingLoop_LastWins(_, _)
WaitingLoop_LastWins(js_messages, n) ==
    IF js_messages = <<>> THEN [ret |-> Continue, ignored |-> n]
    ELSE LET message == Head(js_messages)
             rest == WaitingLoop_LastWins(Tail(js_messages), n)
         IN  IF rest.ret.kind # "Continue" THEN rest
             ELSE IF message.tag = "NexusInitializationFailed"
                 THEN [ret |-> Err(message.reason), ignored |-> n]
             ELSE IF message.tag = "NexusInitializationSucceeded"
                 THEN [ret |-> Ok, ignored |-> n]
             ELSE [ret |-> Continue, ignored |-> n + 1]

\* Mutant: a failure of either kind ends the screen (BridgingFailed shares the
\* arm of NexusInitializationFailed).
RECURSIVE WaitingLoop_AnyFailure(_, _)
WaitingLoop_AnyFailure(js_messages, n) ==
    IF js_messages = <<>> THEN [ret |-> Continue, ignored |-> n]
    ELSE LET message == Head(js_messages) IN
         IF message.tag \in {"NexusInitializationFailed", "BridgingFailed"}
             THEN [ret |-> Err(message.reason), ignored |-> n]
         ELSE IF message.tag = "NexusInitializationSucceeded"
             THEN [ret |-> Ok, ignored |-> n]
         ELSE WaitingLoop_AnyFailure(Tail(js_messages), n + 1)

\* Mutant: a frame that gets no message gives up.
RECURSIVE WaitingLoop_Timeout(_, _)
WaitingLoop_Timeout(js_messages, n) ==
    IF js_messages = <<>>
        THEN [ret |-> IF n = 0 THEN Err("a") ELSE Continue, ignored |-> n]
    ELSE LET message == Head(js_messages) IN
         IF message.tag = "NexusInitializationFailed"
             THEN [ret |-> Err(message.reason), ignored |-> n]
         ELSE IF message.tag = "NexusInitializationSucceeded"
             THEN [ret |-> Ok, ignored |-> n]
         ELSE WaitingLoop_Timeout(Tail(js_messages), n + 1)

\* WaitingForNexusInitScreen::run: `for message in js_messages { match ... }`.
\* ret: Continue when the loop ends without a return; n counts the messages
\* matched by `_ => ()` so far.
RECURSIVE WaitingLoop(_, _)
WaitingLoop(js_messages, n) ==
    IF js_messages = <<>> THEN [ret |-> Continue, ignored |-> n]
    ELSE LET message == Head(js_messages) IN
         IF message.tag = "NexusInitializationFailed"
             THEN [ret |-> Err(message.reason), ignored |-> n]
         ELSE IF message.tag = "NexusInitializationSucceeded"
             THEN [ret |-> Ok, ignored |-> n]
         ELSE WaitingLoop(Tail(js_messages), n + 1)

\* Mutant: a step ends the screen like BridgingSucceed.
RECURSIVE BridgeLoop_StepReturns(_, _, _, _)
BridgeLoop_StepReturns(js_messages, t, p, n) ==
    IF js_messages = <<>>
        THEN [ret |-> Continue, text |-> t, prev_text |-> p, ignored |-> n]
    ELSE LET message == Head(js_messages) IN
         IF message.tag = "BridgingStep"
             THEN [ret |-> Ok, text |-> message.reason, prev_text |-> t,
                   ignored |-> n]
         ELSE IF message.tag = "BridgingFailed"
             THEN [ret |-> Err(message.reason), text |-> t, prev_text |-> p,
                   ignored |-> n]
         ELSE IF message.tag = "BridgingSucceed"
             THEN [ret |-> Ok, text |-> t, prev_text |-> p, ignored |-> n]
         ELSE BridgeLoop_StepReturns(Tail(js_messages), t, p, n + 1)

\* Mutant: the loop does not return early, the last of bridging-failed and
\* bridging-succeeded in the batch decides.
RECURSIVE BridgeLoop_LastWins(_, _, _, _)
BridgeLoop_LastWins(js_messages, t, p, n) ==
    IF js_messages = <<>>
        THEN [ret |-> Continue, text |-> t, prev_text |-> p, ignored |-> n]
    ELSE LET message == Head(js_messages)
             rest == BridgeLoop_LastWins(Tail(js_messages),
                        IF message.tag = "BridgingStep" THEN message.reason ELSE t,
                        IF message.tag = "BridgingStep" THEN t ELSE p,
                        IF message.tag \in {"BridgingStep", "BridgingFailed",
                                            "BridgingSucceed"} THEN n ELSE n + 1)
         IN  IF rest.ret.kind # "Continue" THEN rest
             ELSE IF message.tag = "BridgingFailed"
                 THEN [rest EXCEPT !.ret = Err(message.reason)]
             ELSE IF message.tag = "BridgingSucceed"
                 THEN [rest EXCEPT !.ret = Ok]
             ELSE rest

\* BridgeScreen::run: `for message in js_messages { match ... }`, threading
\* `text` (t), the value it had before its last assignment (p) and the count
\* of messages matched by `_ => ()` (n).
RECURSIVE BridgeLoop(_, _, _, _)
BridgeLoop(js_messages, t, p, n) ==
    IF js_messages = <<>>
        THEN [ret |-> Continue, text |-> t, prev_text |-> p, ignored |-> n]
    ELSE LET message == Head(js_messages) IN
         IF message.tag = "BridgingStep"
             THEN BridgeLoop(Tail(js_messages), message.reason, t, n)
         ELSE IF message.tag = "BridgingFailed"
             THEN [ret |-> Err(message.reason), text |-> t, prev_text |-> p,
                   ignored |-> n]
         ELSE IF message.tag = "BridgingSucceed"
             THEN [ret |-> Ok, text |-> t, prev_text |-> p, ignored |-> n]
         ELSE BridgeLoop(Tail(js_messages), t, p, n + 1)

\* ---------------------------------------------------------------- main.rs
\* Mutant: the result of WaitingForNexusInitScreen is not looked at.
AfterWaiting_Unchecked(r) == "Main"

\* main(): the screen run after WaitingForNexusInitScreen returned r.
AfterWaiting(r) == IF r.kind = "Err" THEN "Error" ELSE "Main"

\* main(): the screen run after BridgeScreen returned r.
AfterBridge(r) == IF r.kind = "Err" THEN "Error" ELSE "Main"

\* Mutant: the Error screen is given the status text, not the reason.
ErrorArgument_Text(r) == WaitingText

\* main(): the argument given to ErrorScreen::run, `error` of `Err(error)`.
ErrorArgument(r) == r.reason

\* -------------------------------------------------------------------- Init
\* Before the first call of read_messages.
NoRead == [messages |-> <<>>, drained |-> FALSE, before |-> <<>>, after |-> <<>>]

\* Before the first layout operation.
NoCall == [op |-> "none"]

Init ==
    /\ MESSAGES_FROM_JS = <<>>
    /\ screen = "Initialize"
    /\ tick = 0
    /\ text = WaitingText
    /\ prev_text = WaitingText
    /\ ignored = 0
    /\ error = ""
    /\ res = NoResult
    /\ init_requests = 0
    /\ bridge_requests = 0
    /\ bridge_runs = 0
    /\ pushed = <<>>
    /\ drained = <<>>
    /\ frames = 0
    /\ stale = <<>>
    /\ discarded = <<>>
    /\ calls = 0
    /\ last_read = NoRead
    /\ elements = <<>>
    /\ call = NoCall

\* ----------------------------------------------------------------- actions
\* A host callback (nexus_initialization_failed, ..., bridging_succeed).
HostCallback ==
    \E message \in MessageFromJs :
        /\ Len(MESSAGES_FROM_JS) < MaxQueue
        /\ MESSAGES_FROM_JS' = push_new_js_message(MESSAGES_FROM_JS, message)
        /\ UNCHANGED <<driver_vars, queue_history, other_vars>>

\* Mutant: the first frame of the screen already polls.
EnterWaiting_PollAtOnce ==
    /\ init_requests' = init_requests + 1
    /\ tick' = PollTicks
    /\ ignored' = 0

\* Prologue of WaitingForNexusInitScreen::run.
EnterWaiting ==
    /\ init_requests' = init_requests + 1
    /\ tick' = 0
    /\ ignored' = 0

\* Mutant: the bridge request is only issued by the first Bridge run.
EnterBridge_RequestOnce ==
    /\ bridge_requests' = IF bridge_requests = 0 THEN 1 ELSE bridge_requests
    /\ tick' = 0
    /\ text' = WaitingText
    /\ prev_text' = WaitingText
    /\ ignored' = 0

\* Prologue of BridgeScreen::run.
EnterBridge ==
    /\ bridge_requests' = bridge_requests + 1
    /\ tick' = 0
    /\ text' = WaitingText
    /\ prev_text' = WaitingText
    /\ ignored' = 0

\* One iteration of InitializeScreen::run; clicked is what btn.draw returns.
InitializeScreen ==
    /\ screen = "Initialize"
    /\ \E clicked \in BOOLEAN :
        IF clicked
            THEN /\ screen' = "WaitingForNexusInit"
                 /\ EnterWaiting
                 /\ UNCHANGED <<MESSAGES_FROM_JS, text, prev_text, error, res,
                                bridge_requests, bridge_runs, queue_history, other_vars>>
            ELSE UNCHANGED vars

\* One iteration of WaitingForNexusInitScreen::run.
WaitingForNexusInitScreen ==
    /\ screen = "WaitingForNexusInit"
    /\ LET rd == read_messages(tick, MESSAGES_FROM_JS)
           out == WaitingLoop(rd.messages, 0)
       IN  /\ MESSAGES_FROM_JS' = rd.l
           /\ tick' = rd.tick
           /\ ignored' = out.ignored
           /\ IF out.ret.kind = "Continue"
                  THEN UNCHANGED <<screen, res, error>>
                  ELSE /\ res' = out.ret
                       /\ screen' = AfterWaiting(out.ret)
                       /\ error' = IF AfterWaiting(out.ret) = "Error"
                                       THEN ErrorArgument(out.ret) ELSE error
           /\ UNCHANGED <<text, prev_text, init_requests, bridge_requests,
                          bridge_runs, queue_history, other_vars>>

\* Mutant: the queue is emptied before the bridge request is issued.
MainScreen_ClearsQueue ==
    /\ screen = "Main"
    /\ \E clicked \in BOOLEAN :
        IF clicked /\ bridge_runs < MaxBridgeRuns
            THEN /\ screen' = "Bridge"
                 /\ bridge_runs' = bridge_runs + 1
                 /\ EnterBridge
                 /\ MESSAGES_FROM_JS' = <<>>
                 /\ UNCHANGED <<error, res, init_requests, queue_history,
                                other_vars>>
            ELSE UNCHANGED vars

\* One iteration of MainScreen::run.
MainScreen ==
    /\ screen = "Main"
    /\ \E clicked \in BOOLEAN :
        IF clicked /\ bridge_runs < MaxBridgeRuns
            THEN /\ screen' = "Bridge"
                 /\ bridge_runs' = bridge_runs + 1
                 /\ EnterBridge
                 /\ UNCHANGED <<MESSAGES_FROM_JS, error, res, init_requests,
                                queue_history, other_vars>>
            ELSE UNCHANGED vars

\* One iteration of BridgeScreen::run.
BridgeScreen ==
    /\ screen = "Bridge"
    /\ LET rd == read_messages(tick, MESSAGES_FROM_JS)
           out == BridgeLoop(rd.messages, text, prev_text, 0)
       IN  /\ MESSAGES_FROM_JS' = rd.l
           /\ tick' = rd.tick
           /\ ignored' = out.ignored
           /\ text' = out.text
           /\ prev_text' = out.prev_text
           /\ IF out.ret.kind = "Continue"
                  THEN UNCHANGED <<screen, res, error>>
                  ELSE /\ res' = out.ret
                       /\ screen' = AfterBridge(out.ret)
                       /\ error' = IF AfterBridge(out.ret) = "Error"
                                       THEN ErrorArgument(out.ret) ELSE error
           /\ UNCHANGED <<init_requests, bridge_requests, bridge_runs,
                          queue_history, other_vars>>

\* Mutant: ErrorScreen::run returns, and main() goes on to its loop.
ErrorScreen_Returns ==
    /\ screen = "Error"
    /\ screen' = "Main"
    /\ UNCHANGED <<MESSAGES_FROM_JS, tick, text, prev_text, ignored, error, res,
                   init_requests, bridge_requests, bridge_runs, queue_history, other_vars>>

\* One iteration of ErrorScreen::run: it draws `error` and never returns.
ErrorScreen ==
    /\ screen = "Error"
    /\ UNCHANGED vars

Next ==
    \/ HostCallback /\ UNCHANGED history_vars
    \/ InitializeScreen /\ UNCHANGED history_vars
    \/ WaitingForNexusInitScreen /\ UNCHANGED history_vars
    \/ MainScreen /\ UNCHANGED history_vars
    \/ BridgeScreen /\ UNCHANGED history_vars
    \/ ErrorScreen /\ UNCHANGED history_vars

Spec == Init /\ [][Next]_vars

\* ------------------------------------------------- the queue on its own
\* The two call sites of read_messages, hence of read_new_js_messages.
Callers == {"WaitingForNexusInitScreen", "BridgeScreen"}

\* A host callback, with the message recorded in `pushed`.
QueuePush ==
    \E message \in MessageFromJs :
        /\ Len(pushed) < MaxPush
        /\ MESSAGES_FROM_JS' = push_new_js_message(MESSAGES_FROM_JS, message)
        /\ pushed' = Append(pushed, message)
        /\ UNCHANGED <<driver_vars, drained, history_vars, other_vars>>

\* A call of read_new_js_messages by one of its callers, with the result
\* recorded in `drained`.
QueueDrain ==
    \E caller \in Callers :
        /\ Len(drained) < MaxDrains
        /\ MESSAGES_FROM_JS' = read_new_js_messages(MESSAGES_FROM_JS).l
        /\ drained' = Append(drained,
                [caller |-> caller,
                 messages |-> read_new_js_messages(MESSAGES_FROM_JS).messages])
        /\ UNCHANGED <<driver_vars, pushed, history_vars, other_vars>>

NextQueue ==
    \/ QueuePush
    \/ QueueDrain

SpecQueue == Init /\ [][NextQueue]_vars

\* The drain results laid end to end.
RECURSIVE Flatten(_)
Flatten(results) ==
    IF results = <<>> THEN <<>>
    ELSE Head(results).messages \o Flatten(Tail(results))

\* C1: under any interleaving of pushes and drains by several callers, the
\* drain results in the order they were returned, followed by what is still
\* queued, are exactly the messages pushed, in the order they were pushed:
\* each message is in exactly one drain result (or still queued), none is
\* lost, duplicated or reordered.
C1_FifoExactlyOnce == Flatten(drained) \o MESSAGES_FROM_JS = pushed

\* Two callers each got a non-empty result and a message is still queued.
C1_Witness ==
    /\ MESSAGES_FROM_JS # <<>>
    /\ \E i, j \in 1..Len(drained) :
        /\ i < j
        /\ drained[i].caller # drained[j].caller
        /\ drained[i].messages # <<>>
        /\ drained[j].messages # <<>>

\* C2: a drain returns exactly what was queued when it was called, in
\* arrival order, and leaves the queue empty (so on an empty queue it
\* returns the empty sequence and the queue stays empty).
C2_DrainReturnsAll ==
    [][Len(drained') = Len(drained) + 1 =>
        /\ drained'[Len(drained')].messages = MESSAGES_FROM_JS
        /\ MESSAGES_FROM_JS' = <<>>]_vars

\* A drain of an empty queue and a drain of two queued messages both happened.
C2_Witness ==
    /\ MESSAGES_FROM_JS = <<>>
    /\ \E i, j \in 1..Len(drained) :
        /\ drained[i].messages = <<>>
        /\ Len(drained[j].messages) >= 2
        /\ drained[j].messages[1] # drained[j].messages[2]

\* ------------------------------------------------ the screens and the driver
IsInitMessage(m) ==
    m.tag \in {"NexusInitializationFailed", "NexusInitializationSucceeded"}

IsBridgeEnd(m) == m.tag \in {"BridgingFailed", "BridgingSucceed"}

IsBridgeMessage(m) ==
    m.tag \in {"BridgingFailed", "BridgingStep", "BridgingSucceed"}

\* Index of the first message of s that satisfies P, 0 if there is none.
FirstWhere(s, P(_)) ==
    IF \E i \in 1..Len(s) : P(s[i])
        THEN CHOOSE i \in 1..Len(s) : P(s[i]) /\ \A j \in 1..(i - 1) : ~P(s[j])
        ELSE 0

\* The step is an iteration of the running Waiting or Bridge screen (each
\* changes `tick`), and it is one that drains the queue.
Iteration == tick' # tick

Polling == tick = PollTicks

\* C3: the screens run in the order Initialize, WaitingForNexusInit, then
\* Error if that returned a failure and Main otherwise; Main is followed by
\* Bridge, and Bridge by Main (or by Error, when it returned a failure).
\* So Main only starts after a success, and Bridge only after Main returned.
C3_ScreenOrder ==
    /\ screen = "Initialize"
    /\ [][screen' # screen =>
            \/ screen = "Initialize" /\ screen' = "WaitingForNexusInit"
            \/ screen = "WaitingForNexusInit" /\ res'.kind = "Err" /\ screen' = "Error"
            \/ screen = "WaitingForNexusInit" /\ res' = Ok /\ screen' = "Main"
            \/ screen = "Main" /\ screen' = "Bridge"
            \/ screen = "Bridge" /\ res' = Ok /\ screen' = "Main"
            \/ screen = "Bridge" /\ res'.kind = "Err" /\ screen' = "Error"]_vars

\* Main runs for the third time, after two Bridge runs.
C3_Witness == screen = "Main" /\ bridge_runs >= 2 /\ res = Ok

\* C4: once the Error screen runs, the screen stays Error, no request is
\* sent to the host, no Bridge run starts and the reason shown is kept.
C4_ErrorTerminal ==
    [][screen = "Error" =>
        /\ screen' = "Error"
        /\ UNCHANGED <<init_requests, bridge_requests, bridge_runs, error, res>>]_vars

\* The Error screen runs after a Bridge failure while the host keeps pushing.
C4_Witness ==
    /\ screen = "Error"
    /\ bridge_runs >= 1
    /\ res.kind = "Err"
    /\ Len(MESSAGES_FROM_JS) >= 2

\* C5: in WaitingForNexusInit, an iteration that does not poll (tick below
\* PollTicks) leaves the queued messages where they are and does not return;
\* the polling iteration returns what the first initialization message of the
\* queue says: success for initialization-succeeded (never a failure),
\* failure with reason x for initialization-failed(x).
C5_WaitingOutcome ==
    [][(screen = "WaitingForNexusInit" /\ Iteration) =>
        LET i == FirstWhere(MESSAGES_FROM_JS, IsInitMessage) IN
        IF ~Polling
            THEN screen' = screen /\ MESSAGES_FROM_JS' = MESSAGES_FROM_JS /\ res' = res
        ELSE IF i = 0
            THEN screen' = screen /\ res' = res
        ELSE IF MESSAGES_FROM_JS[i] = NexusInitializationSucceeded
            THEN screen' = "Main" /\ res' = Ok
        ELSE /\ screen' = "Error"
             /\ res' = Err(MESSAGES_FROM_JS[i].reason)]_vars

\* WaitingForNexusInit returned success on a batch that began with a message
\* it ignores.
C5_Witness ==
    /\ screen = "Main"
    /\ bridge_runs = 0
    /\ res = Ok
    /\ ignored >= 1

\* C6: an iteration of Bridge leaves `text` at the reason of the last
\* bridging-step among the messages it processes (those up to the first
\* bridging-failed or bridging-succeeded), or as it was if there is none; a
\* batch without bridging-failed/-succeeded does not end the screen, whatever
\* steps it holds; a batch whose first such message is bridging-succeeded ends
\* it with success.  `text` is "Waiting..." when a Bridge run starts.
C6_BridgeStatusText ==
    /\ [][(screen = "Bridge" /\ Iteration) =>
            LET batch == IF Polling THEN MESSAGES_FROM_JS ELSE <<>>
                e == FirstWhere(batch, IsBridgeEnd)
                last == IF e = 0 THEN Len(batch) ELSE e
                steps == {i \in 1..last : batch[i].tag = "BridgingStep"}
                newest == CHOOSE i \in steps : \A j \in steps : j <= i
            IN  /\ text' = IF steps = {} THEN text ELSE batch[newest].reason
                /\ e = 0 => screen' = "Bridge" /\ res' = res
                /\ (e # 0 /\ batch[e] = BridgingSucceed) =>
                        screen' = "Main" /\ res' = Ok]_vars
    /\ [][(screen # "Bridge" /\ screen' = "Bridge") => text' = WaitingText]_vars

\* Bridge showed "a", then "b", and returned success.
C6_Witness ==
    /\ screen = "Main"
    /\ bridge_runs >= 1
    /\ res = Ok
    /\ prev_text = "a"
    /\ text = "b"

\* C7: when the first initialization message polled by WaitingForNexusInit is
\* initialization-failed(r), or the first of bridging-failed/-succeeded polled
\* by Bridge is bridging-failed(r), the screen returns Err(r) and the Error
\* screen runs with exactly r; the Error screen's reason never changes.
C7_ReasonPropagated ==
    [][/\ (screen = "WaitingForNexusInit" /\ Iteration /\ Polling) =>
            LET i == FirstWhere(MESSAGES_FROM_JS, IsInitMessage) IN
            (i # 0 /\ MESSAGES_FROM_JS[i].tag = "NexusInitializationFailed") =>
                /\ screen' = "Error"
                /\ res' = Err(MESSAGES_FROM_JS[i].reason)
                /\ error' = MESSAGES_FROM_JS[i].reason
       /\ (screen = "Bridge" /\ Iteration /\ Polling) =>
            LET i == FirstWhere(MESSAGES_FROM_JS, IsBridgeEnd) IN
            (i # 0 /\ MESSAGES_FROM_JS[i].tag = "BridgingFailed") =>
                /\ screen' = "Error"
                /\ res' = Err(MESSAGES_FROM_JS[i].reason)
                /\ error' = MESSAGES_FROM_JS[i].reason
       /\ screen' = "Error" => res' = Err(error')
       /\ screen = "Error" => error' = error]_vars

\* Error shows the reason "b" of a bridging failure after the status was "a".
C7_Witness ==
    /\ screen = "Error"
    /\ bridge_runs >= 1
    /\ text = "a"
    /\ error = "b"

\* C8: messages of a variant the running screen does not handle change
\* nothing: an iteration of WaitingForNexusInit (of Bridge) ends as it would
\* on the batch without its bridging (initialization) messages, and a batch of
\* such messages only leaves screen, result, reason and status text as they
\* were.
C8_OtherVariantsIgnored ==
    [][/\ (screen = "WaitingForNexusInit" /\ Iteration /\ Polling) =>
            LET handled == SelectSeq(MESSAGES_FROM_JS, IsInitMessage) IN
            /\ handled = <<>> =>
                    /\ screen' = screen
                    /\ UNCHANGED <<res, error, text>>
            /\ handled # <<>> =>
                    res' = IF handled[1] = NexusInitializationSucceeded
                               THEN Ok ELSE Err(handled[1].reason)
       /\ (screen = "Bridge" /\ Iteration /\ Polling) =>
            LET handled == SelectSeq(MESSAGES_FROM_JS, IsBridgeMessage)
                e == FirstWhere(handled, IsBridgeEnd)
            IN
            /\ handled = <<>> =>
                    /\ screen' = screen
                    /\ UNCHANGED <<res, error, text>>
            /\ e = 0 => screen' = screen /\ UNCHANGED <<res, error>>
            /\ e # 0 =>
                    res' = IF handled[e] = BridgingSucceed
                               THEN Ok ELSE Err(handled[e].reason)]_vars

\* Bridge polled two messages it does not handle and goes on as before.
C8_Witness ==
    /\ screen = "Bridge"
    /\ ignored >= 2
    /\ text = WaitingText

\* C9: begin-initialization has been requested once as soon as
\* WaitingForNexusInit runs and never again (and not before), and the number
\* of bridge requests is the number of Bridge runs started, at every point,
\* also before the first iteration of the run.
C9_OneRequestPerRun ==
    /\ init_requests = IF screen = "Initialize" THEN 0 ELSE 1
    /\ bridge_requests = bridge_runs
    /\ screen = "Bridge" => bridge_runs >= 1
    /\ screen \in {"Initialize", "WaitingForNexusInit"} => bridge_runs = 0

\* The second Bridge run has started and has not iterated yet.
C9_Witness ==
    /\ screen = "Bridge"
    /\ bridge_runs = 2
    /\ bridge_requests = 2
    /\ tick = 0

\* C10: WaitingForNexusInit returns only in an iteration that polls a queue
\* holding an initialization message, and Bridge only in one that polls a
\* queue holding bridging-failed or bridging-succeeded; otherwise the screen
\* goes on, however many iterations have passed.
C10_NoTimeout ==
    [][/\ (screen = "WaitingForNexusInit" /\ screen' # screen) =>
            Polling /\ FirstWhere(MESSAGES_FROM_JS, IsInitMessage) # 0
       /\ (screen = "Bridge" /\ screen' # screen) =>
            Polling /\ FirstWhere(MESSAGES_FROM_JS, IsBridgeEnd) # 0]_vars

\* Bridge has polled without returning, has run PollTicks more iterations and
\* is still running.
C10_Witness ==
    /\ screen = "Bridge"
    /\ prev_text = "a"
    /\ text = "b"
    /\ tick = PollTicks
    /\ MESSAGES_FROM_JS = <<>>

\* ------------------------------------- the driver with its history recorded
\* The screens whose loop calls read_messages.
PollingScreens == {"WaitingForNexusInit", "Bridge"}

\* The step starts a run of a polling screen; the step is the return of one.
Entering == screen' # screen /\ screen' \in PollingScreens

Returning == screen' # screen /\ screen \in PollingScreens

\* The message that makes `running` return.
Terminates(running, m) ==
    IF running = "WaitingForNexusInit" THEN IsInitMessage(m) ELSE IsBridgeEnd(m)

\* Index of the first message of s that makes `running` return, 0 if none.
FirstTerminating(running, s) ==
    IF running = "WaitingForNexusInit" THEN FirstWhere(s, IsInitMessage)
    ELSE FirstWhere(s, IsBridgeEnd)

\* What a step of the driver does to the history variables.  frames: 0 when
\* a polling run starts, one more with each of its iterations (counted up to
\* PollTicks + 2).  stale: the queue at the start of the run, forgotten once
\* the run has drained without returning.  discarded: the part of the
\* drained batch behind the message the run returned on.
History ==
    /\ frames' = IF Entering THEN 0
                 ELSE IF screen \in PollingScreens /\ Iteration
                     THEN IF frames < PollTicks + 2 THEN frames + 1 ELSE frames
                 ELSE frames
    /\ stale' = IF Entering THEN MESSAGES_FROM_JS
                ELSE IF screen \in PollingScreens /\ Iteration /\ Polling
                        /\ ~Returning
                    THEN <<>>
                ELSE stale
    /\ discarded' = IF Entering THEN <<>>
                    ELSE IF Returning
                        THEN SubSeq(MESSAGES_FROM_JS,
                                    FirstTerminating(screen, MESSAGES_FROM_JS) + 1,
                                    Len(MESSAGES_FROM_JS))
                    ELSE discarded

NextHist ==
    \/ HostCallback /\ History
    \/ InitializeScreen /\ History
    \/ WaitingForNexusInitScreen /\ History
    \/ MainScreen /\ History
    \/ BridgeScreen /\ History
    \/ ErrorScreen /\ History

SpecHist == Init /\ [][NextHist]_vars

\* s is the beginning of t.
IsPrefix(s, t) == Len(s) <= Len(t) /\ SubSeq(t, 1, Len(s)) = s

\* The result a screen returns on the terminating message m.
OutcomeOf(m) ==
    IF m.tag \in {"NexusInitializationSucceeded", "BridgingSucceed"} THEN Ok
    ELSE Err(m.reason)

\* The bridging steps among the messages s, in order.
StepsOf(s) == SelectSeq(s, LAMBDA m : m.tag = "BridgingStep")

C19_RestOfBatchDiscarded ==
    [][Returning =>
        LET batch == MESSAGES_FROM_JS
            i == FirstTerminating(screen, batch)
            kept == SubSeq(batch, 1, i - 1)
        IN  /\ i # 0
            /\ MESSAGES_FROM_JS' = <<>>
            /\ discarded' = SubSeq(batch, i + 1, Len(batch))
            /\ res' = OutcomeOf(batch[i])
            /\ screen' = IF batch[i].tag \in {"NexusInitializationSucceeded",
                                               "BridgingSucceed"}
                             THEN "Main" ELSE "Error"
            /\ screen = "WaitingForNexusInit" =>
                    ignored' = Len(kept) /\ UNCHANGED <<text, prev_text>>
            /\ screen = "Bridge" =>
                /\ text' = IF StepsOf(kept) = <<>> THEN text
                           ELSE StepsOf(kept)[Len(StepsOf(kept))].reason
                /\ ignored' = Len(kept) - Len(StepsOf(kept))]_vars

\* Bridge returned success on a batch in which bridging-failed came behind
\* bridging-succeeded: the failure is in neither the queue nor the result.
C19_Witness ==
    /\ screen = "Main"
    /\ bridge_runs >= 1
    /\ res = Ok
    /\ discarded = <<BridgingFailed("a")>>
    /\ MESSAGES_FROM_JS = <<>>

\* C20: only a draining iteration of WaitingForNexusInit or Bridge takes
\* messages from the queue: the start of a screen, its return and all that
\* happens while Initialize, Main or Error runs leave every queued message in
\* place.  So the first drain of a run gets the messages that were queued
\* when the run started, and if one of them terminates the screen the run
\* returns with the result of the first such message.
C20_QueueOutlivesScreens ==
    [][/\ ~(screen \in PollingScreens /\ Iteration /\ Polling) =>
            IsPrefix(MESSAGES_FROM_JS, MESSAGES_FROM_JS')
       /\ Entering => MESSAGES_FROM_JS' = MESSAGES_FROM_JS /\ stale' = MESSAGES_FROM_JS
       /\ (screen \in PollingScreens /\ frames <= PollTicks) =>
            IsPrefix(stale, MESSAGES_FROM_JS)
       /\ (screen \in PollingScreens /\ frames = PollTicks /\ Iteration
                /\ FirstTerminating(screen, stale) # 0) =>
            res' = OutcomeOf(stale[FirstTerminating(screen, stale)])]_vars

\* The first Bridge run returned success at its first drain on a
\* bridging-succeeded that was queued before the run issued its request.
C20_Witness ==
    /\ screen = "Main"
    /\ bridge_runs = 1
    /\ bridge_requests = 1
    /\ res = Ok
    /\ frames = PollTicks + 1
    /\ stale = <<BridgingSucceed>>

\* ==================================================== utils/layout.rs
\* Layout works on f32.  The model computes with exact rationals <<n, d>>
\* (d > 0, in lowest terms): every value of the cases below that f32 holds
\* exactly is the same here.  NaN, infinities and rounding are not modelled.
MaxElements == 3

RECURSIVE GCD(_, _)
GCD(a, b) == IF b = 0 THEN a ELSE GCD(b, a % b)

Abs(n) == IF n < 0 THEN -n ELSE n

Rat(n, d) ==
    LET g == GCD(Abs(n), d) IN
    IF n = 0 THEN <<0, 1>> ELSE <<n \div g, d \div g>>

R(n) == <<n, 1>>

RAdd(a, b) == Rat(a[1] * b[2] + b[1] * a[2], a[2] * b[2])

RSub(a, b) == Rat(a[1] * b[2] - b[1] * a[2], a[2] * b[2])

RMulInt(a, k) == Rat(a[1] * k, a[2])

RDivInt(a, k) == Rat(a[1], a[2] * k)

RLess(a, b) == a[1] * b[2] < b[1] * a[2]

RLeq(a, b) == a[1] * b[2] <= b[1] * a[2]

RMin(a, b) == IF RLess(b, a) THEN b ELSE a

RMax(a, b) == IF RLess(a, b) THEN b ELSE a

\* macroquad's Vec2.
Vec2(x, y) == [x |-> x, y |-> y]

\* Option<f32>.
None == [some |-> FALSE]

Some(v) == [some |-> TRUE, v |-> v]

unwrap_or(o, default) == IF o.some THEN o.v ELSE default

\* An implementor of ElementLayout with a stored position: CustomButton
\* (text_height None) or CustomText (text_height Some(offset_y)).
Element(pos, dim, th) == [pos |-> pos, dim |-> dim, text_height |-> th]

\* Mutant: the margin is not clamped at 0.
calculate_margin_unclamped(needed_length, max_length) ==
    RSub(max_length, needed_length)

\* calculate_margin
calculate_margin(needed_length, max_length) ==
    IF RLess(needed_length, max_length)
        THEN RSub(max_length, needed_length)
        ELSE R(0)

\* horizontally_center_element: the element afterwards.
horizontally_center_element(starting_pos_x, container_width, e) ==
    LET width_needed == e.dim.x
        margin == RDivInt(calculate_margin(width_needed, container_width), 2)
        pos_x == RAdd(starting_pos_x, margin)
    IN  [e EXCEPT !.pos = Vec2(pos_x, e.pos.y)]

\* Mutant: the baseline offset of the element is left out.
vertically_center_element_no_baseline(starting_pos_y, container_height, e) ==
    LET height_needed == e.dim.y
        margin == RDivInt(calculate_margin(height_needed, container_height), 2)
        pos_y == RAdd(starting_pos_y, margin)
    IN  [e EXCEPT !.pos = Vec2(e.pos.x, pos_y)]

\* vertically_center_element: the element afterwards.
vertically_center_element(starting_pos_y, container_height, e) ==
    LET height_needed == e.dim.y
        margin == RDivInt(calculate_margin(height_needed, container_height), 2)
        text_height == unwrap_or(e.text_height, R(0))
        pos_y == RAdd(RAdd(starting_pos_y, margin), text_height)
    IN  [e EXCEPT !.pos = Vec2(e.pos.x, pos_y)]

\* Mutant: the far edges are not part of the element.
intersect_point_half_open(e, p) ==
    LET top_left == e.pos
        bottom_right == Vec2(RAdd(e.pos.x, e.dim.x), RAdd(e.pos.y, e.dim.y))
    IN  IF RLess(p.y, top_left.y) \/ RLeq(bottom_right.y, p.y) THEN FALSE
        ELSE IF RLess(p.x, top_left.x) \/ RLeq(bottom_right.x, p.x) THEN FALSE
        ELSE TRUE

\* ElementLayout::intersect_point
intersect_point(e, p) ==
    LET top_left == e.pos
        bottom_right == Vec2(RAdd(e.pos.x, e.dim.x), RAdd(e.pos.y, e.dim.y))
    IN  IF RLess(p.y, top_left.y) \/ RLess(bottom_right.y, p.y) THEN FALSE
        ELSE IF RLess(p.x, top_left.x) \/ RLess(bottom_right.x, p.x) THEN FALSE
        ELSE TRUE

\* SpaceBetweenElements
Value(v) == [kind |-> "Value", v |-> v]

Equal == [kind |-> "Equal"]

single_value(space) == IF space.kind = "Value" THEN space.v ELSE R(0)

is_value(space) == space.kind = "Value"

\* usize::saturating_sub
saturating_sub(a, b) == IF a > b THEN a - b ELSE 0

\* `elements.iter().fold(0.0, |acc, next| next.layout_dim().x + acc)`
RECURSIVE fold_dim_x(_)
fold_dim_x(es) ==
    IF es = <<>> THEN R(0) ELSE RAdd(Head(es).dim.x, fold_dim_x(Tail(es)))

\* `elements.iter().fold(0.0, |acc, next| next.layout_dim().y + acc)`
RECURSIVE fold_dim_y(_)
fold_dim_y(es) ==
    IF es = <<>> THEN R(0) ELSE RAdd(Head(es).dim.y, fold_dim_y(Tail(es)))

\* Mutant: one gap is counted per element, not per pair of neighbours.
width_needed_gap_per_element(es, space) ==
    RAdd(fold_dim_x(es), RMulInt(single_value(space), Len(es)))

\* horizontally_center_elements: `width_needed`.
width_needed(es, space) ==
    RAdd(fold_dim_x(es), RMulInt(single_value(space), saturating_sub(Len(es), 1)))

\* vertically_center_elements: `height_needed`.
height_needed(es, space) ==
    RAdd(fold_dim_y(es), RMulInt(single_value(space), saturating_sub(Len(es), 1)))

\* Mutant: with Equal, the margin is divided by the number of elements.
split_margin_x_by_len(margin, space, len) ==
    IF is_value(space)
        THEN [margin |-> RDivInt(margin, 2), space |-> single_value(space)]
        ELSE [margin |-> IF len = 0 THEN margin ELSE RDivInt(margin, len),
              space |-> IF len = 0 THEN margin ELSE RDivInt(margin, len)]

\* horizontally_center_elements: `let space = if ... { margin = ...; ... }`,
\* the margin before the first element and the space after each element.
split_margin_x(margin, space, len) ==
    IF is_value(space)
        THEN [margin |-> RDivInt(margin, 2), space |-> single_value(space)]
        ELSE [margin |-> RDivInt(margin, len + 1),
              space |-> RDivInt(margin, len + 1)]

\* vertically_center_elements: the same lines.
split_margin_y(margin, space, len) ==
    IF is_value(space)
        THEN [margin |-> RDivInt(margin, 2), space |-> single_value(space)]
        ELSE [margin |-> RDivInt(margin, len + 1),
              space |-> RDivInt(margin, len + 1)]

\* horizontally_center_elements: `for e in elements { ... }`.
RECURSIVE place_x(_, _, _)
place_x(es, pos_x, space) ==
    IF es = <<>> THEN <<>>
    ELSE LET e == Head(es) IN
         <<[e EXCEPT !.pos = Vec2(pos_x, e.pos.y)]>>
            \o place_x(Tail(es), RAdd(RAdd(pos_x, e.dim.x), space), space)

\* vertically_center_elements: `for e in elements { ... }`.
RECURSIVE place_y(_, _, _)
place_y(es, pos_y, space) ==
    IF es = <<>> THEN <<>>
    ELSE LET e == Head(es)
             text_height == unwrap_or(e.text_height, R(0))
         IN  <<[e EXCEPT !.pos = Vec2(e.pos.x, RAdd(pos_y, text_height))]>>
                \o place_y(Tail(es), RAdd(RAdd(pos_y, e.dim.y), space), space)

\* horizontally_center_elements: the elements afterwards.
horizontally_center_elements(starting_pos_x, container_width, space, es) ==
    LET margin == calculate_margin(width_needed(es, space), container_width)
        split == split_margin_x(margin, space, Len(es))
    IN  place_x(es, RAdd(starting_pos_x, split.margin), split.space)

\* vertically_center_elements: the elements afterwards.
vertically_center_elements(starting_pos_y, container_height, space, es) ==
    LET margin == calculate_margin(height_needed(es, space), container_height)
        split == split_margin_y(margin, space, Len(es))
    IN  place_y(es, RAdd(starting_pos_y, split.margin), split.space)

\* ==================================================== utils/elements.rs
\* Stands for f32::MAX (and -F32_MAX for f32::MIN): larger than every
\* coordinate of the model.
F32_MAX == 1000000

\* PhantomDiv::layout_pos: `top_left` after the loop over the members.
RECURSIVE PhantomDiv_top_left(_, _)
PhantomDiv_top_left(es, top_left) ==
    IF es = <<>> THEN top_left
    ELSE LET pos == Head(es).pos IN
         PhantomDiv_top_left(Tail(es),
             Vec2(RMin(top_left.x, pos.x), RMin(top_left.y, pos.y)))

\* PhantomDiv::layout_dim: `bottom_right` after the loop over the members.
RECURSIVE PhantomDiv_bottom_right(_, _)
PhantomDiv_bottom_right(es, bottom_right) ==
    IF es = <<>> THEN bottom_right
    ELSE LET e == Head(es)
             dim == Vec2(RAdd(e.pos.x, e.dim.x), RAdd(e.pos.y, e.dim.y))
         IN  PhantomDiv_bottom_right(Tail(es),
                 Vec2(RMax(bottom_right.x, dim.x), RMax(bottom_right.y, dim.y)))

\* PhantomDiv::layout_pos of the group whose members are es.
PhantomDiv_layout_pos(es) == PhantomDiv_top_left(es, Vec2(R(F32_MAX), R(F32_MAX)))

\* PhantomDiv::layout_dim: the value returned (when the assertions hold).
PhantomDiv_layout_dim(es) ==
    LET top_left == PhantomDiv_top_left(es, Vec2(R(F32_MAX), R(F32_MAX)))
        bottom_right ==
            PhantomDiv_bottom_right(es, Vec2(R(-F32_MAX), R(-F32_MAX)))
    IN  Vec2(RSub(bottom_right.x, top_left.x), RSub(bottom_right.y, top_left.y))

\* Mutant: the assertions want a box that is more than a point or a line.
PhantomDiv_layout_dim_asserts_strict(es) ==
    LET top_left == PhantomDiv_top_left(es, Vec2(R(F32_MAX), R(F32_MAX)))
        bottom_right ==
            PhantomDiv_bottom_right(es, Vec2(R(-F32_MAX), R(-F32_MAX)))
    IN  /\ RLess(top_left.x, bottom_right.x)
        /\ RLess(top_left.y, bottom_right.y)

\* PhantomDiv::layout_dim: both `assert!` hold (otherwise the call panics).
PhantomDiv_layout_dim_asserts(es) ==
    LET top_left == PhantomDiv_top_left(es, Vec2(R(F32_MAX), R(F32_MAX)))
        bottom_right ==
            PhantomDiv_bottom_right(es, Vec2(R(-F32_MAX), R(-F32_MAX)))
    IN  /\ RLeq(top_left.x, bottom_right.x)
        /\ RLeq(top_left.y, bottom_right.y)

\* Mutant: every member is put at `value`.
PhantomDiv_layout_set_pos_absolute(es, value) ==
    [k \in 1..Len(es) |-> [es[k] EXCEPT !.pos = value]]

\* PhantomDiv::layout_set_pos: the members afterwards.
PhantomDiv_layout_set_pos(es, value) ==
    LET current_pos == PhantomDiv_layout_pos(es)
        diff == Vec2(RSub(value.x, current_pos.x), RSub(value.y, current_pos.y))
    IN  [k \in 1..Len(es) |->
            [es[k] EXCEPT !.pos = Vec2(RAdd(es[k].pos.x, diff.x),
                                       RAdd(es[k].pos.y, diff.y))]]

\* ------------------------------------------------- the layout on its own
\* The elements the operations are tried on.
ElementPool ==
    { Element(Vec2(R(0), R(0)), Vec2(R(10), R(10)), None),
      Element(Vec2(R(20), R(5)), Vec2(R(5), R(5)), None),
      Element(Vec2(R(0), R(0)), Vec2(R(20), R(10)), Some(R(3))),
      Element(Vec2(R(3), R(4)), Vec2(R(30), R(20)), Some(R(7))),
      Element(Vec2(R(20), R(5)), Vec2(R(40), R(60)), None) }

\* Lengths calculate_margin is tried on.
Lengths == {-5, 0, 10, 40, 70, 100}

\* Start coordinates and container extents of the centering operations.
Starts == {0, 15}

Containers == {0, 40, 100}

\* Positions a group is moved to.
Positions == {Vec2(R(100), R(100)), Vec2(R(0), R(0)), Vec2(R(7), R(-3))}

\* Points tried against an element; the first pool element spans 0..10.
Points == {Vec2(R(x), R(y)) : x \in {-1, 0, 5, 10, 11}, y \in {-1, 0, 5, 10, 11}}

\* Sizes a button is given with CustomButton::dim: a point, lines, and
\* sizes with a negative component.
Dims == {Vec2(R(0), R(0)), Vec2(R(0), R(8)), Vec2(R(-3), R(4)), Vec2(R(4), R(-3))}

\* space_between_elements: fixed gaps (25.0 is MainScreen's) and Equal.
Spaces == {Value(R(5)), Value(R(25)), Equal}

InitLayout ==
    /\ MESSAGES_FROM_JS = <<>>
    /\ screen = "Initialize"
    /\ tick = 0
    /\ text = WaitingText
    /\ prev_text = WaitingText
    /\ ignored = 0
    /\ error = ""
    /\ res = NoResult
    /\ init_requests = 0
    /\ bridge_requests = 0
    /\ bridge_runs = 0
    /\ pushed = <<>>
    /\ drained = <<>>
    /\ frames = 0
    /\ stale = <<>>
    /\ discarded = <<>>
    /\ calls = 0
    /\ last_read = NoRead
    /\ elements \in UNION {[1..k -> ElementPool] : k \in 0..MaxElements}
    /\ call = NoCall

not_layout_vars ==
    <<MESSAGES_FROM_JS, driver_vars, queue_history, history_vars, poll_vars>>

\* A call of calculate_margin.
CalculateMargin ==
    /\ call.op = "none"
    /\ \E needed \in Lengths, max \in Lengths :
        call' = [op |-> "calculate_margin", needed |-> needed, max |-> max,
                 result |-> calculate_margin(R(needed), R(max))]
    /\ UNCHANGED <<elements, not_layout_vars>>

\* e.horizontally_center(start, container) on one of the elements.
HorizontallyCenter ==
    /\ call.op = "none"
    /\ \E i \in 1..Len(elements), start \in Starts, container \in Containers :
        /\ call' = [op |-> "horizontally_center_element", i |-> i,
                    start |-> start, container |-> container,
                    before |-> elements]
        /\ elements' = [elements EXCEPT ![i] =
                horizontally_center_element(R(start), R(container), elements[i])]
    /\ UNCHANGED not_layout_vars

\* e.vertically_center(start, container) on one of the elements.
VerticallyCenter ==
    /\ call.op = "none"
    /\ \E i \in 1..Len(elements), start \in Starts, container \in Containers :
        /\ call' = [op |-> "vertically_center_element", i |-> i,
                    start |-> start, container |-> container,
                    before |-> elements]
        /\ elements' = [elements EXCEPT ![i] =
                vertically_center_element(R(start), R(container), elements[i])]
    /\ UNCHANGED not_layout_vars

\* horizontally_center_elements on all the elements.
HorizontallyCenterElements ==
    /\ call.op = "none"
    /\ \E start \in Starts, container \in Containers, space \in Spaces :
        /\ call' = [op |-> "horizontally_center_elements", start |-> start,
                    container |-> container, space |-> space,
                    before |-> elements]
        /\ elements' = horizontally_center_elements(R(start), R(container),
                                                    space, elements)
    /\ UNCHANGED not_layout_vars

\* vertically_center_elements on all the elements.
VerticallyCenterElements ==
    /\ call.op = "none"
    /\ \E start \in Starts, container \in Containers, space \in Spaces :
        /\ call' = [op |-> "vertically_center_elements", start |-> start,
                    container |-> container, space |-> space,
                    before |-> elements]
        /\ elements' = vertically_center_elements(R(start), R(container),
                                                  space, elements)
    /\ UNCHANGED not_layout_vars

\* layout_set_pos on the PhantomDiv whose members are all the elements; a
\* group can be moved again and again.
PhantomDivSetPos ==
    /\ call.op \in {"none", "layout_set_pos"}
    /\ \E value \in Positions :
        /\ call' = [op |-> "layout_set_pos", value |-> value, before |-> elements]
        /\ elements' = PhantomDiv_layout_set_pos(elements, value)
    /\ UNCHANGED not_layout_vars

\* e.intersect_point(p) on one of the elements.
IntersectPoint ==
    /\ call.op = "none"
    /\ \E i \in 1..Len(elements), p \in Points :
        call' = [op |-> "intersect_point", i |-> i, p |-> p,
                 result |-> intersect_point(elements[i], p)]
    /\ UNCHANGED <<elements, not_layout_vars>>

\* CustomButton::dim(value) on one of the elements that are buttons (a
\* button reports no text height).
CustomButtonDim ==
    /\ call.op = "none"
    /\ \E i \in 1..Len(elements), value \in Dims :
        /\ elements[i].text_height = None
        /\ elements' = [elements EXCEPT ![i].dim = value]
        /\ call' = [op |-> "dim", i |-> i, value |-> value]
    /\ UNCHANGED not_layout_vars

\* layout_dim on the PhantomDiv whose members are all the elements, as built,
\* after a button was resized or after the group was moved; `after` is the
\* operation before it.
PhantomDivLayoutDim ==
    /\ call.op \in {"none", "dim", "layout_set_pos"}
    /\ call' = [op |-> "layout_dim", after |-> call.op,
                panicked |-> ~PhantomDiv_layout_dim_asserts(elements),
                value |-> IF PhantomDiv_layout_dim_asserts(elements)
                              THEN Some(PhantomDiv_layout_dim(elements))
                              ELSE None]
    /\ UNCHANGED <<elements, not_layout_vars>>

NextLayout ==
    \/ CustomButtonDim
    \/ PhantomDivLayoutDim
    \/ PhantomDivSetPos
    \/ IntersectPoint
    \/ CalculateMargin
    \/ HorizontallyCenter
    \/ VerticallyCenter
    \/ HorizontallyCenterElements
    \/ VerticallyCenterElements

SpecLayout == InitLayout /\ [][NextLayout]_vars

\* C11: calculate_margin(needed, available) is 0 when needed >= available
\* and available - needed otherwise, and is never negative.
C11_Margin ==
    call.op = "calculate_margin" =>
        /\ call.result =
                IF call.needed >= call.max THEN R(0) ELSE R(call.max - call.needed)
        /\ RLeq(R(0), call.result)

\* The margin of a length that does not fit was clamped to 0.
C11_Witness ==
    /\ call.op = "calculate_margin"
    /\ call.needed = 100
    /\ call.max = 40
    /\ call.result = R(0)

\* Half of what is left of `container` around an extent, 0 if it does not fit.
HalfLeftover(extent, container) ==
    IF RLeq(extent, R(container)) THEN RDivInt(RSub(R(container), extent), 2)
    ELSE R(0)

\* C12: centering one element puts it at start + (C - W)/2 when C >= W and
\* at start when W > C, on the vertical axis plus the element's baseline
\* offset (0 when it has none); the other coordinate and the other elements
\* stay as they were.
C12_CenterOne ==
    /\ call.op = "horizontally_center_element" =>
        LET old == call.before[call.i] IN
        elements = [call.before EXCEPT ![call.i] =
            [old EXCEPT !.pos = Vec2(
                RAdd(R(call.start), HalfLeftover(old.dim.x, call.container)),
                old.pos.y)]]
    /\ call.op = "vertically_center_element" =>
        LET old == call.before[call.i]
            offset == IF old.text_height.some THEN old.text_height.v ELSE R(0)
        IN
        elements = [call.before EXCEPT ![call.i] =
            [old EXCEPT !.pos = Vec2(
                old.pos.x,
                RAdd(RAdd(R(call.start), HalfLeftover(old.dim.y, call.container)),
                     offset))]]

\* A text 20 x 10 with baseline offset 3 was centered in 15..55 vertically:
\* y = 15 + (40 - 10)/2 + 3.
C12_Witness ==
    /\ call.op = "vertically_center_element"
    /\ call.start = 15
    /\ call.container = 40
    /\ call.before[call.i].text_height = Some(R(3))
    /\ elements[call.i].pos.y = R(33)

\* Sum of f over 1..n.
RECURSIVE RSum(_, _)
RSum(f, n) == IF n = 0 THEN R(0) ELSE RAdd(f[n], RSum(f, n - 1))

\* max(a, 0)
ClampAtZero(a) == IF RLess(a, R(0)) THEN R(0) ELSE a

\* The statement of C13 on one axis, coordinate by coordinate: coord[k] is
\* element k's coordinate afterwards, extent[k] its extent.
FixedGapPlacement(coord, extent, n, start, container, g) ==
    LET occupied == RAdd(RSum(extent, n), RMulInt(g, IF n = 0 THEN 0 ELSE n - 1))
        margin == ClampAtZero(RSub(R(container), occupied))
    IN  /\ n >= 1 => coord[1] = RAdd(R(start), RDivInt(margin, 2))
        /\ \A k \in 1..(n - 1) :
                coord[k + 1] = RAdd(RAdd(coord[k], extent[k]), g)

\* C13 as claimed, on both axes: with a fixed gap g the first element is at
\* start + max(C - occupied, 0)/2 and each following one at the previous
\* element's position + its extent + g.
C13_AsClaimed ==
    /\ (call.op = "horizontally_center_elements" /\ call.space.kind = "Value") =>
        FixedGapPlacement([k \in 1..Len(elements) |-> elements[k].pos.x],
                          [k \in 1..Len(elements) |-> elements[k].dim.x],
                          Len(elements), call.start, call.container, call.space.v)
    /\ (call.op = "vertically_center_elements" /\ call.space.kind = "Value") =>
        FixedGapPlacement([k \in 1..Len(elements) |-> elements[k].pos.y],
                          [k \in 1..Len(elements) |-> elements[k].dim.y],
                          Len(elements), call.start, call.container, call.space.v)

\* The baseline offset of element k (0 when it reports none).
BaselineOffset(e) == IF e.text_height.some THEN e.text_height.v ELSE R(0)

\* C13, amended: horizontally as claimed; vertically the same holds of each
\* element's coordinate less its baseline offset, that is, the offset is
\* added to the element's own y and does not move the elements after it.
\* The sizes and the other coordinate of every element are kept.
C13_FixedGap ==
    /\ (call.op = "horizontally_center_elements" /\ call.space.kind = "Value") =>
        /\ FixedGapPlacement([k \in 1..Len(elements) |-> elements[k].pos.x],
                             [k \in 1..Len(elements) |-> elements[k].dim.x],
                             Len(elements), call.start, call.container,
                             call.space.v)
        /\ Len(elements) = Len(call.before)
        /\ \A k \in 1..Len(elements) :
                elements[k] = [call.before[k] EXCEPT !.pos.x = elements[k].pos.x]
    /\ (call.op = "vertically_center_elements" /\ call.space.kind = "Value") =>
        /\ FixedGapPlacement(
                [k \in 1..Len(elements) |->
                    RSub(elements[k].pos.y, BaselineOffset(elements[k]))],
                [k \in 1..Len(elements) |-> elements[k].dim.y],
                Len(elements), call.start, call.container, call.space.v)
        /\ Len(elements) = Len(call.before)
        /\ \A k \in 1..Len(elements) :
                elements[k] = [call.before[k] EXCEPT !.pos.y = elements[k].pos.y]

\* Widths 10, 20, 30 with gap 5 in a container of 100 from 0: 15, 30, 55.
C13_Witness ==
    /\ call.op = "horizontally_center_elements"
    /\ call.space = Value(R(5))
    /\ call.start = 0
    /\ call.container = 100
    /\ Len(elements) = 3
    /\ <<elements[1].dim.x, elements[2].dim.x, elements[3].dim.x>>
            = <<R(10), R(20), R(30)>>
    /\ <<elements[1].pos.x, elements[2].pos.x, elements[3].pos.x>>
            = <<R(15), R(30), R(55)>>

\* The general statement of C14 about horizontally_center_elements with
\* Equal: the gap is max(C - sum of the widths, 0) / (N + 1); the first
\* element is at start + gap, each following one at the previous element's
\* position + its width + gap, and when the elements fit the last one ends
\* one gap before start + C.
EqualGaps ==
    (call.op = "horizontally_center_elements" /\ call.space.kind = "Equal") =>
        LET n == Len(elements)
            x == [k \in 1..n |-> elements[k].pos.x]
            w == [k \in 1..n |-> elements[k].dim.x]
            leftover == ClampAtZero(RSub(R(call.container), RSum(w, n)))
            gap == RDivInt(leftover, n + 1)
        IN  /\ n >= 1 => x[1] = RAdd(R(call.start), gap)
            /\ \A k \in 1..(n - 1) : x[k + 1] = RAdd(RAdd(x[k], w[k]), gap)
            /\ (n >= 1 /\ RLeq(RSum(w, n), R(call.container))) =>
                    RAdd(RAdd(x[n], w[n]), gap) = R(call.start + call.container)
            /\ n = Len(call.before)
            /\ \A k \in 1..n :
                    elements[k] = [call.before[k] EXCEPT !.pos.x = x[k]]

\* The example of C14: widths 10, 20, 30 spaced equally in 100 from 0.
EqualExample ==
    /\ call.op = "horizontally_center_elements"
    /\ call.space = Equal
    /\ call.start = 0
    /\ call.container = 100
    /\ Len(elements) = 3
    /\ <<elements[1].dim.x, elements[2].dim.x, elements[3].dim.x>>
            = <<R(10), R(20), R(30)>>

Least(S) == CHOOSE a \in S : \A b \in S : RLeq(a, b)

Greatest(S) == CHOOSE a \in S : \A b \in S : RLeq(b, a)

\* The box around the members es (at least one): position and size.
BoxPos(es) ==
    Vec2(Least({es[k].pos.x : k \in 1..Len(es)}),
         Least({es[k].pos.y : k \in 1..Len(es)}))

BoxDim(es) ==
    Vec2(RSub(Greatest({RAdd(es[k].pos.x, es[k].dim.x) : k \in 1..Len(es)}),
              BoxPos(es).x),
         RSub(Greatest({RAdd(es[k].pos.y, es[k].dim.y) : k \in 1..Len(es)}),
              BoxPos(es).y))

C16_HitTest ==
    call.op = "intersect_point" =>
        LET e == elements[call.i]
            p == call.p
        IN  call.result <=>
                /\ RLeq(e.pos.x, p.x) /\ RLeq(p.x, RAdd(e.pos.x, e.dim.x))
                /\ RLeq(e.pos.y, p.y) /\ RLeq(p.y, RAdd(e.pos.y, e.dim.y))

\* The far corner (10,10) of the element (0,0,10,10) counts as inside.
C16_Witness ==
    /\ call.op = "intersect_point"
    /\ elements[call.i].pos = Vec2(R(0), R(0))
    /\ elements[call.i].dim = Vec2(R(10), R(10))
    /\ call.p = Vec2(R(10), R(10))
    /\ call.result

\* Every member of es has a size that is not negative on either axis.
NonNegativeSizes(es) ==
    \A k \in 1..Len(es) : RLeq(R(0), es[k].dim.x) /\ RLeq(R(0), es[k].dim.y)

\* C21: layout_dim of a group with at least one member, all of whose members
\* have non-negative sizes, passes both assertions (and returns the size of
\* the box), wherever the members are and however often the group was moved
\* with layout_set_pos before; layout_dim of a group with no members panics.
C21_LayoutDimAssertions ==
    /\ (Len(elements) >= 1 /\ NonNegativeSizes(elements)) =>
            PhantomDiv_layout_dim_asserts(elements)
    /\ call.op = "layout_dim" =>
        /\ (Len(elements) >= 1 /\ NonNegativeSizes(elements)) =>
                ~call.panicked /\ call.value = Some(BoxDim(elements))
        /\ elements = <<>> => call.panicked /\ call.value = None

\* layout_dim of a group of two members that had been moved with
\* layout_set_pos returned the size 25 x 10 of their box.
C21_Witness ==
    /\ call.op = "layout_dim"
    /\ call.after = "layout_set_pos"
    /\ Len(elements) = 2
    /\ NonNegativeSizes(elements)
    /\ ~call.panicked
    /\ call.value = Some(Vec2(R(25), R(10)))
\* A host callback between two frames.
PollPush ==
    \E message \in MessageFromJs :
        /\ Len(MESSAGES_FROM_JS) < MaxQueue
        /\ MESSAGES_FROM_JS' = push_new_js_message(MESSAGES_FROM_JS, message)
        /\ UNCHANGED <<driver_vars, queue_history, history_vars, other_vars>>

\* One call read_messages(&mut tick) by a screen that keeps the same tick
\* counter; `drained` records whether it called read_new_js_messages.
PollRead ==
    /\ calls < MaxCalls
    /\ LET rd == read_messages(tick, MESSAGES_FROM_JS)
       IN  /\ tick' = rd.tick
           /\ MESSAGES_FROM_JS' = rd.l
           /\ calls' = calls + 1
           /\ last_read' = [messages |-> rd.messages,
                            drained |-> ~(tick < PollTicks),
                            before |-> MESSAGES_FROM_JS,
                            after |-> rd.l]
    /\ UNCHANGED <<screen, text, prev_text, ignored, error, res, init_requests,
                   bridge_requests, bridge_runs, queue_history, history_vars,
                   layout_vars>>

NextPoll ==
    \/ PollPush
    \/ PollRead

SpecPoll == Init /\ [][NextPoll]_vars

\* C17: over consecutive calls of read_messages with the same tick counter
\* starting at 0, the queue is drained exactly on calls 200, 400, ...; a
\* draining call returns the whole queue and empties it, and every other
\* call returns an empty list and leaves the queue untouched.
C17_Every200Calls ==
    calls > 0 =>
        /\ last_read.drained <=> calls % PollTicks = 0
        /\ last_read.drained =>
                last_read.messages = last_read.before /\ last_read.after = <<>>
        /\ ~last_read.drained =>
                last_read.messages = <<>> /\ last_read.after = last_read.before

====
